---- MODULE Spec2Model ----
(***************************************************************************)
(* JFlashPatcher: the merge/copy engine of jflash_patch_core.py and the    *)
(* batch worker of jflash_patch_gui.py.                                    *)
(*                                                                         *)
(* Strings are sequences of one-character strings, so that str.lower()     *)
(* and the f-string that builds the placeholder key are computed, not      *)
(* assumed.  An XML element is a record [tag, attrib, kids]: attrib is the *)
(* ordered list of <<key, value>> pairs of Element.attrib, kids the        *)
(* ordered list of child elements.                                         *)
(***************************************************************************)
EXTENDS Integers, Sequences, FiniteSets, TLC

(***************************************************************************)
(* Bounds of the model.                                                    *)
(***************************************************************************)
MaxTargetKids == 1   \* direct children of the target document at the start
MaxSrcKids    == 2   \* direct children of a source document
MaxCalls      == 2   \* direct calls of one core function in a behaviour
MaxBatch      == 2   \* bundles ticked in one batch of the GUI
MaxDepth      == 2   \* depth of the file trees of the algorithm folders
MaxElemKids   == 2   \* children of the element handed to get_device_name
MaxEntries    == 3   \* entries of a directory listed by iterdir

(***************************************************************************)
(* Strings.                                                                *)
(***************************************************************************)
UpperChars == <<"A","B","C","D","E","F","G","H","I","J","K","L","M",
                "N","O","P","Q","R","S","T","U","V","W","X","Y","Z">>
LowerChars == <<"a","b","c","d","e","f","g","h","i","j","k","l","m",
                "n","o","p","q","r","s","t","u","v","w","x","y","z">>
DigitChars == <<"0","1","2","3","4","5","6","7","8","9">>

\* str.lower() on one character
LowerChar(c) ==
    IF \E i \in 1..Len(UpperChars) : UpperChars[i] = c
    THEN LowerChars[CHOOSE i \in 1..Len(UpperChars) : UpperChars[i] = c]
    ELSE c

\* str.lower()
Lower(s) == [i \in 1..Len(s) |-> LowerChar(s[i])]

\* str(n) for a natural number, as the f-string formats idx
RECURSIVE Str(_)
Str(n) == IF n < 10 THEN <<DigitChars[n + 1]>>
          ELSE Str(n \div 10) \o <<DigitChars[(n % 10) + 1]>>

\* Python's None: no string, since every character of a string is one letter
None == <<"None">>

\* truthiness of the result of elem.get(): neither None nor ""
Truthy(v) == v # None /\ v # <<>>

s_name     == <<"n","a","m","e">>
s_Name     == <<"N","a","m","e">>
s_device   == <<"d","e","v","i","c","e">>
s_Device   == <<"D","e","v","i","c","e">>
s_chipinfo == <<"c","h","i","p","i","n","f","o">>
s_ChipInfo == <<"C","h","i","p","I","n","f","o">>
s_nAmE     == <<"n","A","m","E">>
s_Core     == <<"C","o","r","e">>
s_X        == <<"X">>
s_F1       == <<"F","1">>
s_F4       == <<"F","4">>
s_old      == <<"o","l","d">>
s_new      == <<"n","e","w">>

(***************************************************************************)
(* XML elements.                                                           *)
(***************************************************************************)
Element(tag, attrib, kids) == [tag |-> tag, attrib |-> attrib, kids |-> kids]

\* Element.get(key): the value of the attribute with exactly this key
Get(elem, key) ==
    IF \E i \in 1..Len(elem.attrib) : elem.attrib[i][1] = key
    THEN elem.attrib[CHOOSE i \in 1..Len(elem.attrib) : elem.attrib[i][1] = key][2]
    ELSE None

\* mutant of HasNameKey: the key is compared without lower()
HasNameKey_ExactCase(elem) == \E i \in 1..Len(elem.attrib) : elem.attrib[i][1] = s_name

\* the first attribute, in attrib order, whose key.lower() is 'name'
HasNameKey(elem) == \E i \in 1..Len(elem.attrib) : Lower(elem.attrib[i][1]) = s_name
FirstNameKey(elem) ==
    elem.attrib[CHOOSE i \in 1..Len(elem.attrib) :
                   /\ Lower(elem.attrib[i][1]) = s_name
                   /\ \A j \in 1..(i - 1) : Lower(elem.attrib[j][1]) # s_name][2]

\* the least position of a set of positions
FirstOf(S) == CHOOSE i \in S : \A j \in S : i <= j

NotFound == [name |-> None, found |-> FALSE]
Found(v) == [name |-> v, found |-> TRUE]

RECURSIVE get_device_name(_)
RECURSIVE ChipInfoScan(_, _)
RECURSIVE ChildScan(_, _)

\* mutant of ChipInfoScan: the loop over the chipinfo children is missing
ChipInfoScan_Skipped(kids, i) == NotFound

\* the first loop over the children of a Device element (chipinfo children)
ChipInfoScan(kids, i) ==
    IF i > Len(kids) THEN NotFound
    ELSE IF Lower(kids[i].tag) = s_chipinfo
         THEN IF HasNameKey(kids[i]) THEN Found(FirstNameKey(kids[i]))
              ELSE LET sub == get_device_name(kids[i])
                   IN  IF sub.found THEN sub ELSE ChipInfoScan(kids, i + 1)
         ELSE ChipInfoScan(kids, i + 1)

\* the second loop over the children of a Device element (every child)
ChildScan(kids, i) ==
    IF i > Len(kids) THEN NotFound
    ELSE LET sub == get_device_name(kids[i])
         IN  IF sub.found THEN sub ELSE ChildScan(kids, i + 1)

get_device_name(elem) ==
    IF Truthy(Get(elem, s_Name)) THEN Found(Get(elem, s_Name))
    ELSE IF Truthy(Get(elem, s_name)) THEN Found(Get(elem, s_name))
    ELSE IF HasNameKey(elem) THEN Found(FirstNameKey(elem))
    ELSE IF Lower(elem.tag) = s_device
         THEN LET chip == ChipInfoScan(elem.kids, 1)
              IN  IF chip.found THEN chip ELSE ChildScan(elem.kids, 1)
         ELSE NotFound

(***************************************************************************)
(* Files.  A file is absent, or holds bytes that are not well-formed XML,  *)
(* or holds a document; of a document the model keeps the direct children  *)
(* of the root and whether the bytes are the ones it was shipped with      *)
(* ("orig") or the serialisation ElementTree.write produces ("etree").      *)
(***************************************************************************)
Absent    == [kind |-> "absent", form |-> "none", kids |-> <<>>]
Malformed == [kind |-> "malformed", form |-> "orig", kids |-> <<>>]
Doc(kids) == [kind |-> "xml", form |-> "orig", kids |-> kids]

\* os.path.exists
Exists(f) == f.kind # "absent"

\* mutant of copy2: the file is parsed and written back instead of copied
copy2_Reserialised(src) == [kind |-> "xml", form |-> "etree", kids |-> src.kids]

\* shutil.copy2(src, dst): dst gets the bytes of src
copy2(src) == src

\* mutant of ParseFails: a parse that never reports malformed bytes
ParseFails_Never(f) == FALSE

\* ET.parse: fails with ParseError unless the bytes are well-formed
ParseFails(f) == f.kind # "xml"

\* ElementTree.write(encoding='utf-8', xml_declaration=True)
TreeWrite(kids) == [kind |-> "xml", form |-> "etree", kids |-> kids]

(***************************************************************************)
(* merge_xml                                                               *)
(***************************************************************************)
\* f"__unnamed_{tag}_{idx}__"
Placeholder(tag, idx) ==
    <<"_","_","u","n","n","a","m","e","d","_">> \o tag \o <<"_">> \o Str(idx) \o <<"_","_">>

\* the key the first loop adds for the target child at Python index i - 1
ExistingKey(kids, i) ==
    IF get_device_name(kids[i]).found THEN get_device_name(kids[i]).name
    ELSE Placeholder(kids[i].tag, i - 1)

\* mutant of existing_names: the collecting loop is skipped
existing_names_Empty(kids) == {}

\* the set built from the target's direct children before any source child
existing_names(kids) == {ExistingKey(kids, i) : i \in 1..Len(kids)}

\* does the scan of the update branch find a target child of that name
HasNamed(kids, name) == \E j \in 1..Len(kids) : get_device_name(kids[j]).name = name
FirstNamed(kids, name) ==
    CHOOSE j \in 1..Len(kids) :
        /\ get_device_name(kids[j]).name = name
        /\ \A k \in 1..(j - 1) : get_device_name(kids[k]).name # name

\* list.remove at position j
RemoveAt(kids, j) == SubSeq(kids, 1, j - 1) \o SubSeq(kids, j + 1, Len(kids))

\* mutant of UpdateChild: the old child is not removed
UpdateChild_NoRemove(kids, name, elem_src) == Append(kids, elem_src)

\* the update branch: remove the first same-named child, if any, then append
UpdateChild(kids, name, elem_src) ==
    IF HasNamed(kids, name)
    THEN Append(RemoveAt(kids, FirstNamed(kids, name)), elem_src)
    ELSE Append(kids, elem_src)

LogLine(ev, name) == [ev |-> ev, name |-> name]

\* what the loop did with one source child: the log line it emitted, the
\* target's children before and after
StepRecord(ev, name, elem_src, before, after) ==
    [ev |-> ev, name |-> name, elem |-> elem_src, before |-> before, after |-> after]

\* mutant of MergeStep: an anonymous source child equal to a child the target
\* already has is taken for a duplicate and dropped
MergeStep_AnonDedup(acc, elem_src) ==
    LET r == get_device_name(elem_src) IN
    IF ~r.found /\ \E j \in 1..Len(acc.kids) : acc.kids[j] = elem_src
    THEN [acc EXCEPT !.steps = Append(acc.steps,
                                  StepRecord("duplicate_no_name", None, elem_src,
                                             acc.kids, acc.kids))]
    ELSE IF ~r.found
    THEN [acc EXCEPT !.kids = Append(acc.kids, elem_src),
                     !.added = acc.added + 1,
                     !.steps = Append(acc.steps,
                                  StepRecord("appended_no_name", None, elem_src,
                                             acc.kids, Append(acc.kids, elem_src)))]
    ELSE IF r.name \notin acc.names
    THEN [acc EXCEPT !.kids = Append(acc.kids, elem_src),
                     !.added = acc.added + 1,
                     !.names = acc.names \cup {r.name},
                     !.steps = Append(acc.steps,
                                  StepRecord("added", r.name, elem_src,
                                             acc.kids, Append(acc.kids, elem_src)))]
    ELSE [acc EXCEPT !.kids = UpdateChild(acc.kids, r.name, elem_src),
                     !.replaced = acc.replaced + 1,
                     !.steps = Append(acc.steps,
                                  StepRecord("updated", r.name, elem_src,
                                             acc.kids, UpdateChild(acc.kids, r.name, elem_src)))]

\* one iteration of the loop over the source children
MergeStep(acc, elem_src) ==
    LET r == get_device_name(elem_src) IN
    IF ~r.found
    THEN [acc EXCEPT !.kids = Append(acc.kids, elem_src),
                     !.added = acc.added + 1,
                     !.skipped_no_name = acc.skipped_no_name + 1,
                     !.log = Append(acc.log, LogLine("appended_no_name", elem_src.tag)),
                     !.steps = Append(acc.steps,
                                  StepRecord("appended_no_name", None, elem_src,
                                             acc.kids, Append(acc.kids, elem_src)))]
    ELSE IF r.name \notin acc.names
    THEN [acc EXCEPT !.kids = Append(acc.kids, elem_src),
                     !.added = acc.added + 1,
                     !.names = acc.names \cup {r.name},
                     !.log = Append(acc.log, LogLine("added", r.name)),
                     !.steps = Append(acc.steps,
                                  StepRecord("added", r.name, elem_src,
                                             acc.kids, Append(acc.kids, elem_src)))]
    ELSE [acc EXCEPT !.kids = UpdateChild(acc.kids, r.name, elem_src),
                     !.replaced = acc.replaced + 1,
                     !.log = Append(acc.log, LogLine("updated", r.name)),
                     !.steps = Append(acc.steps,
                                  StepRecord("updated", r.name, elem_src,
                                             acc.kids, UpdateChild(acc.kids, r.name, elem_src)))]

RECURSIVE MergeLoop(_, _, _)
MergeLoop(acc, src_kids, i) ==
    IF i > Len(src_kids) THEN acc
    ELSE MergeLoop(MergeStep(acc, src_kids[i]), src_kids, i + 1)

\* what one call leaves behind: the two files, the log lines, the counters of
\* the final line, whether a fault of a write primitive left the call by an
\* exception, and how often the target file was written
MergeResult(target, bak, outcome, log, acc, writes) ==
    [target |-> target, bak |-> bak, outcome |-> outcome, log |-> log,
     added |-> acc.added, replaced |-> acc.replaced, steps |-> acc.steps,
     writes |-> writes]

NoMerge == [kids |-> <<>>, names |-> {}, added |-> 0, replaced |-> 0,
            skipped_no_name |-> 0, log |-> <<>>, steps |-> <<>>]

\* mutant of BackupBlock: an existing .bak file is overwritten
BackupBlock_Overwrite(target, bak, backup) ==
    IF backup /\ Exists(target) THEN copy2(target) ELSE bak

\* the .bak file after the backup block
BackupBlock(target, bak, backup) ==
    IF backup /\ Exists(target) /\ ~Exists(bak) THEN copy2(target) ELSE bak

BackupLog(target, bak, backup) ==
    IF backup /\ Exists(target) /\ ~Exists(bak) THEN <<LogLine("backed_up", None)>> ELSE <<>>

\* merge_xml(target_xml, src_xml, backup, log_func); wfault: the write of the
\* target file raises OSError (read-only file, no permission)
merge_xml(target, bak, src, backup, wfault) ==
    IF ~Exists(src)
    THEN MergeResult(target, bak, "src_missing", <<LogLine("warn_src_missing", None)>>, NoMerge, 0)
    ELSE LET bak1 == BackupBlock(target, bak, backup)
             log1 == BackupLog(target, bak, backup)
         IN
         IF ~Exists(target)
         THEN IF wfault
              THEN MergeResult(target, bak1, "raised", log1, NoMerge, 0)
              ELSE MergeResult(copy2(src), bak1, "created",
                               log1 \o <<LogLine("created", None)>>, NoMerge, 1)
         ELSE IF ParseFails(target) \/ ParseFails(src)
         THEN MergeResult(target, bak1, "parse_error",
                          log1 \o <<LogLine("parse_failed", None)>>, NoMerge, 0)
         ELSE LET acc0 == [NoMerge EXCEPT !.kids = target.kids,
                                          !.names = existing_names(target.kids)]
                  acc  == MergeLoop(acc0, src.kids, 1)
              IN  IF wfault
                  THEN MergeResult(target, bak1, "raised", log1 \o acc.log, acc, 0)
                  ELSE MergeResult(TreeWrite(acc.kids), bak1, "merged",
                                   log1 \o acc.log \o <<LogLine("merge_done", None)>>, acc, 1)

(***************************************************************************)
(* Folders.  A folder is absent or holds files; files is a function from   *)
(* relative paths (sequences of names) to contents.  A path is a directory *)
(* of the folder when some file lies below it; empty directories are not   *)
(* represented.                                                            *)
(***************************************************************************)
NoFiles == [p \in {} |-> "none"]
NoDir == [exists |-> FALSE, files |-> NoFiles]
Dir(files) == [exists |-> TRUE, files |-> files]

IsProperPrefix(d, p) == Len(d) < Len(p) /\ SubSeq(p, 1, Len(d)) = d

\* os.path.isdir / os.path.isfile below the folder
IsDirIn(files, p) == \E q \in DOMAIN files : IsProperPrefix(p, q)
IsFileIn(files, p) == p \in DOMAIN files

\* os.makedirs(dst_dir, exist_ok=True) for a directory above the source file
\* p raises FileExistsError: the destination has a file at that path
Blocked(dst, p) == \E k \in 1..(Len(p) - 1) : IsFileIn(dst, SubSeq(p, 1, k))

\* shutil.copy2(src_file, dst_file): when dst_file is a directory the file is
\* copied into it under its own base name
Landing(dst, p) == IF IsDirIn(dst, p) THEN p \o <<p[Len(p)]>> ELSE p

\* the copy of the source file p raises OSError
CopyFails(dst, p) == Blocked(dst, p) \/ IsDirIn(dst, Landing(dst, p))

\* the source files copytree copies; the others end up in its Error
Copied(src, dst) == {p \in DOMAIN src : ~CopyFails(dst, p)}

\* mutant of Overlay: a mirror, the files only the destination had are dropped
Overlay_Mirror(src, dst, done) ==
    [q \in {Landing(dst, p) : p \in done} |-> src[CHOOSE p \in done : Landing(dst, p) = q]]

\* the destination after the source files in done were copied over it
Overlay(src, dst, done) ==
    [q \in DOMAIN dst \cup {Landing(dst, p) : p \in done} |->
        IF \E p \in done : Landing(dst, p) = q
        THEN src[CHOOSE p \in done : Landing(dst, p) = q]
        ELSE dst[q]]

\* select_callback(src_mcu_folder): (selected_path, found); of the selected
\* folder the model keeps its base name and its files
Selected(name, files) == [found |-> TRUE, name |-> name, files |-> files]
NotSelected == [found |-> FALSE, name |-> "", files |-> NoFiles]

CopyResult(dir, outcome, log) == [dir |-> dir, outcome |-> outcome, log |-> log]

\* copy_devices(src_mcu_folder, jflash_dir, select_callback, log_func) on the
\* destination folder dst = <jflash_dir>/<basename>; legacy: the build is
\* Python < 3.8, where copytree rejects dirs_exist_ok with TypeError and the
\* os.walk loop copies until its first error, having copied the files in done
copy_devices(sel, dst, legacy, done) ==
    IF ~sel.found
    THEN CopyResult(dst, "not_selected", <<LogLine("error_not_selected", None)>>)
    ELSE LET log0 == <<LogLine("device_folder", None)>> IN
         IF ~dst.exists
         THEN CopyResult(Dir(sel.files), "created", log0 \o <<LogLine("created", None)>>)
         ELSE IF Copied(sel.files, dst.files) = DOMAIN sel.files
         THEN CopyResult(Dir(Overlay(sel.files, dst.files, DOMAIN sel.files)), "merged",
                         log0 \o <<LogLine("folder_merged", None)>>)
         ELSE IF legacy
         THEN CopyResult(Dir(Overlay(sel.files, dst.files, done)), "raised", log0)
         ELSE CopyResult(Dir(Overlay(sel.files, dst.files, Copied(sel.files, dst.files))),
                         "raised", log0)

(***************************************************************************)
(* State.                                                                  *)
(***************************************************************************)
VARIABLES
    target,      \* <jflash_dir>/JLinkDevices.xml
    bak,         \* <jflash_dir>/JLinkDevices.xml.bak
    inst,        \* the algorithm folders of <jflash_dir>, by folder name
    backup,      \* the backup argument the caller passes in this behaviour
    call,        \* history: the last call of a core function, with what it was given
    ncalls,      \* history: number of direct calls so far
    pristine,    \* history: the target file as it was before the first call
    start_btn,         \* MainWindow.start_btn is enabled
    jflash_valid,      \* MainWindow.jflash_valid
    patch_root_valid,  \* MainWindow.patch_root_valid
    closing,           \* MainWindow.closeEvent: "open", "waiting" (in wait(2000)), "closed"
    selected_folders,  \* PatchWorker.selected_folders
    is_running,        \* PatchWorker._is_running
    idx,               \* PatchWorker.run: the loop index
    wpc,               \* PatchWorker.run: where the worker thread is
    cur,               \* PatchWorker.run: selected_path, found of the current bundle
    hist               \* history: what the batch did with each bundle so far

workerVars == <<start_btn, jflash_valid, patch_root_valid, closing, selected_folders, is_running, idx, wpc, cur, hist>>

vars == <<target, bak, inst, backup, call, ncalls, pristine, workerVars>>

NoCall == [op |-> "none"]

\* the window after MainWindow.__init__, both directories valid: no worker
NoWorker ==
    /\ start_btn = TRUE
    /\ jflash_valid = TRUE
    /\ patch_root_valid = TRUE
    /\ closing = "open"
    /\ selected_folders = <<>>
    /\ is_running = FALSE
    /\ idx = 0
    /\ wpc = "none"
    /\ cur = [found |-> FALSE, name |-> "", files |-> [p \in {} |-> "none"]]
    /\ hist = <<>>

\* the names of the algorithm folders that occur
FolderNames == {"Devices", "JLinkDevices", "Flash", "Algo"}
NoInst == [n \in FolderNames |-> NoDir]

(***************************************************************************)
(* The documents the calls are tried on.                                   *)
(***************************************************************************)
\* <X/>: no name anywhere
AnonX == Element(s_X, <<>>, <<>>)
\* <Device Name="__unnamed_X_0__"/>: a named device; its name is the key the
\* first loop gives an unnamed <X/> that is the first child of the target
DevU0 == Element(s_Device, << <<s_Name, Placeholder(s_X, 0)>> >>, <<>>)

ElemPool == {AnonX, DevU0}

\* the sequences of at most n elements of S
RECURSIVE SeqsUpTo(_, _)
SeqsUpTo(S, n) ==
    IF n = 0 THEN {<<>>}
    ELSE LET shorter == SeqsUpTo(S, n - 1)
         IN  shorter \cup {Append(q, e) : q \in {r \in shorter : Len(r) = n - 1}, e \in S}

TargetFiles == {Absent, Malformed} \cup {Doc(k) : k \in SeqsUpTo(ElemPool, MaxTargetKids)}
SourceFiles == {Absent, Malformed} \cup {Doc(k) : k \in SeqsUpTo(ElemPool, MaxSrcKids)}

(***************************************************************************)
(* Direct calls of merge_xml against one target path.                      *)
(***************************************************************************)
InitMerge ==
    /\ target \in TargetFiles
    /\ bak = Absent
    /\ inst = NoInst
    /\ backup \in BOOLEAN
    /\ call = NoCall
    /\ ncalls = 0
    /\ pristine = target
    /\ NoWorker

\* the previous call ran to its end with the same source file
Rerun(src) ==
    /\ call.op = "merge_xml"
    /\ call.src = src
    /\ call.res.outcome \in {"merged", "created"}

CallMergeXml(src) ==
    /\ ncalls < MaxCalls
    /\ LET res == merge_xml(target, bak, src, backup, FALSE) IN
       /\ target' = res.target
       /\ bak' = res.bak
       /\ call' = [op |-> "merge_xml", pre_target |-> target, pre_bak |-> bak,
                   src |-> src, backup |-> backup, rerun |-> Rerun(src), res |-> res]
    /\ ncalls' = ncalls + 1
    /\ UNCHANGED <<inst, backup, pristine, workerVars>>

NextMerge == \E src \in SourceFiles : CallMergeXml(src)

SpecMerge == InitMerge /\ [][NextMerge]_vars

(***************************************************************************)
(* Properties of merge_xml (checked under SpecMerge).                      *)
(***************************************************************************)
IsMerge == call.op = "merge_xml"
Merged  == IsMerge /\ call.res.outcome = "merged"

Named(e)  == get_device_name(e).found
NameOf(e) == get_device_name(e).name

\* the resolved names of the named children of a document
ResolvedNames(kids) == {NameOf(kids[i]) : i \in {j \in 1..Len(kids) : Named(kids[j])}}

\* the placeholder keys of the unnamed children of a document
PlaceholderKeys(kids) ==
    {Placeholder(kids[i].tag, i - 1) : i \in {j \in 1..Len(kids) : ~Named(kids[j])}}

\* an earlier child of the same source has the resolved name of child i
EarlierSameName(kids, i) ==
    \E j \in 1..(i - 1) : Named(kids[j]) /\ NameOf(kids[j]) = NameOf(kids[i])

\* source children whose resolved name is that of a child the target had
SharedWithTarget(src_kids, tgt_kids) ==
    {i \in 1..Len(src_kids) : Named(src_kids[i]) /\ NameOf(src_kids[i]) \in ResolvedNames(tgt_kids)}

\* source children whose resolved name is, when their turn comes, a name of a
\* target child, a placeholder key, or the name of an earlier source child
KnownWhenProcessed(src_kids, tgt_kids) ==
    {i \in 1..Len(src_kids) :
        /\ Named(src_kids[i])
        /\ \/ NameOf(src_kids[i]) \in ResolvedNames(tgt_kids)
           \/ NameOf(src_kids[i]) \in PlaceholderKeys(tgt_kids)
           \/ EarlierSameName(src_kids, i)}

\* source children for which the target holds, when their turn comes, a
\* child of the same resolved name
ReplacesAChild(src_kids, tgt_kids) ==
    {i \in 1..Len(src_kids) :
        /\ Named(src_kids[i])
        /\ \/ NameOf(src_kids[i]) \in ResolvedNames(tgt_kids)
           \/ EarlierSameName(src_kids, i)}

\* C1 (as claimed): with N source children of which K have the resolved name
\* of an existing target child, the written target has original + (N - K)
\* children and the final line reports added = N - K, updated = K.
C1_AsClaimed ==
    Merged =>
        LET N == Len(call.src.kids)
            K == Cardinality(SharedWithTarget(call.src.kids, call.pre_target.kids))
        IN  /\ Len(target.kids) = Len(call.pre_target.kids) + (N - K)
            /\ call.res.added = N - K
            /\ call.res.replaced = K

\* C1 (amended): K counts the source children whose resolved name is, when
\* they are processed, the name of a target child, a placeholder key or the
\* name of an earlier source child; added = N - K, updated = K, and the
\* written target has original + N - R children, R counting the source
\* children that found a same-named child to replace.
C1_MergeCounts ==
    Merged =>
        LET N == Len(call.src.kids)
            K == Cardinality(KnownWhenProcessed(call.src.kids, call.pre_target.kids))
            R == Cardinality(ReplacesAChild(call.src.kids, call.pre_target.kids))
        IN  /\ Len(target.kids) = Len(call.pre_target.kids) + N - R
            /\ call.res.added = N - K
            /\ call.res.replaced = K

\* a merge that both added and updated, the update being of a name that
\* only an earlier child of the same source brought in
C1_Witness ==
    /\ Merged
    /\ call.res.added = 1
    /\ call.res.replaced = 1
    /\ SharedWithTarget(call.src.kids, call.pre_target.kids) = {}
    /\ Len(target.kids) = Len(call.pre_target.kids) + 1

\* C2 (as claimed): a source child whose resolved name is already in the
\* existing-name set replaces exactly one target child, the first one of
\* that resolved name: that child is removed, the source child is appended
\* last, the number of children is unchanged, the others keep their order.
C2_AsClaimed ==
    Merged =>
        \A i \in 1..Len(call.res.steps) :
            LET st == call.res.steps[i] IN
            st.ev = "updated" =>
                /\ HasNamed(st.before, st.name)
                /\ Len(st.after) = Len(st.before)
                /\ st.after = Append(RemoveAt(st.before, FirstNamed(st.before, st.name)), st.elem)

\* C3: a second run with the same source, all of whose children are named,
\* completes, reports every source child as updated and none as added, and
\* leaves the number of target children as the first run left it.
C3_RerunUpdatesAll ==
    ( /\ IsMerge
      /\ call.rerun
      /\ call.src.kind = "xml"
      /\ \A i \in 1..Len(call.src.kids) : Named(call.src.kids[i]) )
    => /\ call.res.outcome = "merged"
       /\ call.res.added = 0
       /\ call.res.replaced = Len(call.src.kids)
       /\ Len(target.kids) = Len(call.pre_target.kids)

\* a second run of a source with two named children, one name twice
C3_Witness ==
    /\ Merged
    /\ call.rerun
    /\ Len(call.src.kids) = 2
    /\ \A i \in 1..Len(call.src.kids) : Named(call.src.kids[i])
    /\ call.res.replaced = 2

\* the backup block of the last call ran: the source file was there
ReachedBackupBlock == IsMerge /\ Exists(call.src)

\* the last call made the .bak file
CreatedBackup == IsMerge /\ ~Exists(call.pre_bak) /\ Exists(bak)

\* C4 (as claimed): over calls that all have backup=True, the .bak file is made by the
\* first call that finds the target existing, as a copy of the target that
\* call was given, is never changed once it exists, and so holds the target
\* as it was before any patch.
C4_AsClaimed ==
    (IsMerge /\ backup) =>
        /\ (ReachedBackupBlock /\ Exists(call.pre_target)) => Exists(bak)
        /\ CreatedBackup => bak = call.pre_target
        /\ Exists(call.pre_bak) => bak = call.pre_bak
        /\ Exists(bak) => bak = pristine

\* C4 (amended): as claimed, but the .bak file holds the target as it was
\* before any patch only if the target existed before the first call; a
\* target that an earlier call created from a source is backed up as that
\* call left it.
C4_BackupOnce ==
    (IsMerge /\ backup) =>
        /\ (ReachedBackupBlock /\ Exists(call.pre_target)) => Exists(bak)
        /\ CreatedBackup => bak = call.pre_target
        /\ Exists(call.pre_bak) => bak = call.pre_bak
        /\ (Exists(bak) /\ Exists(pristine)) => bak = pristine
        /\ (Exists(bak) /\ ~Exists(pristine)) => bak.form = "orig"

\* a second merge that rewrote the target and left the backup of the first
\* merge, a copy of the original target, alone
C4_Witness ==
    /\ Merged
    /\ backup
    /\ Exists(call.pre_bak)
    /\ bak = pristine
    /\ target # pristine
    /\ call.pre_target # pristine
    /\ Len(target.kids) > Len(call.pre_target.kids)

\* the call was given a missing source, or an existing target with one of
\* the two documents malformed
AbortsOn(tgt, src) ==
    \/ ~Exists(src)
    \/ Exists(tgt) /\ (tgt.kind = "malformed" \/ src.kind = "malformed")

\* C8: a call that aborts (source missing, parse failure of either document)
\* leaves the target file as it was; a call writes the target at most once,
\* and only after the loop went through every source child.
C8_AbortLeavesTarget ==
    IsMerge =>
        /\ AbortsOn(call.pre_target, call.src) =>
              /\ call.res.outcome \in {"src_missing", "parse_error"}
              /\ target = call.pre_target
              /\ call.res.writes = 0
        /\ call.res.writes <= 1
        /\ target # call.pre_target => call.res.writes = 1
        /\ (call.res.writes = 1 /\ Exists(call.pre_target)) =>
              Len(call.res.steps) = Len(call.src.kids)

\* a call on a well-formed target with children and a malformed source
C8_Witness ==
    /\ IsMerge
    /\ call.res.outcome = "parse_error"
    /\ call.src.kind = "malformed"
    /\ call.pre_target.kind = "xml"
    /\ Len(call.pre_target.kids) = 1
    /\ target = call.pre_target

\* C9 (as claimed): a placeholder key never makes a source child an update:
\* every source child logged and counted as updated has the resolved name of
\* a child the target had, or of an earlier child of the same source.
C9_AsClaimed ==
    Merged =>
        \A i \in 1..Len(call.res.steps) :
            call.res.steps[i].ev = "updated" =>
                i \in ReplacesAChild(call.src.kids, call.pre_target.kids)

\* C14: a call with the target absent and the source present leaves the
\* target an exact copy of the source, bytes that are no well-formed XML
\* included, leaves the .bak file as it was, and runs no merge step.
C14_AbsentTargetCopied ==
    (IsMerge /\ ~Exists(call.pre_target) /\ Exists(call.src)) =>
        /\ call.res.outcome = "created"
        /\ target = call.src
        /\ bak = call.pre_bak
        /\ call.res.steps = <<>>
        /\ call.res.added = 0 /\ call.res.replaced = 0
        /\ \A i \in 1..Len(call.res.log) :
              call.res.log[i].ev \notin {"parse_failed", "backed_up", "merge_done"}

\* a call with the backup option on, no target, and a source whose bytes
\* are no well-formed XML
C14_Witness ==
    /\ IsMerge
    /\ backup
    /\ ~Exists(call.pre_target)
    /\ call.src = Malformed
    /\ target = Malformed
    /\ ~Exists(bak)

\* the anonymous children of a source document
Anonymous(kids) == {i \in 1..Len(kids) : ~Named(kids[i])}

\* C15: every anonymous source child is appended to the target as it is at
\* that step and counted as added, whatever the target holds; a repeated
\* merge of the same source grows the target by the number of anonymous
\* source children.
C15_AnonymousAppended ==
    Merged =>
        /\ \A i \in Anonymous(call.src.kids) :
              /\ call.res.steps[i].ev = "appended_no_name"
              /\ call.res.steps[i].after = Append(call.res.steps[i].before, call.src.kids[i])
        /\ call.res.added >= Cardinality(Anonymous(call.src.kids))
        /\ call.rerun =>
              Len(target.kids) = Len(call.pre_target.kids) + Cardinality(Anonymous(call.src.kids))

\* a repeated merge of a source with one anonymous and one named child, on a
\* target that already holds an equal anonymous child
C15_Witness ==
    /\ Merged
    /\ call.rerun
    /\ Len(call.src.kids) = 2
    /\ Cardinality(Anonymous(call.src.kids)) = 1
    /\ \E j \in 1..Len(call.pre_target.kids) :
           call.pre_target.kids[j] = call.src.kids[FirstOf(Anonymous(call.src.kids))]
    /\ Len(target.kids) = Len(call.pre_target.kids) + 1

\* the named direct children of a document have pairwise distinct names
UniqueNames(kids) ==
    \A i \in 1..Len(kids), j \in 1..Len(kids) :
        (i # j /\ Named(kids[i]) /\ Named(kids[j])) => NameOf(kids[i]) # NameOf(kids[j])

\* C18 (as claimed): a call with a well-formed source on a target that is
\* absent, or whose named direct children have pairwise distinct resolved
\* names, leaves a target whose named direct children have pairwise distinct
\* resolved names.
C18_AsClaimed ==
    (/\ IsMerge
     /\ call.src.kind = "xml"
     /\ ~Exists(call.pre_target) \/ UniqueNames(call.pre_target.kids)) =>
        UniqueNames(target.kids)

\* the file is absent or holds well-formed XML
AbsentOrWellFormed(f) == f.kind \in {"absent", "xml"}

\* C21 (as claimed): from a target that is absent or well-formed, whatever
\* source files the calls of merge_xml are given, the target is absent or
\* well-formed, and no call ends in a parse error that the target causes.
C21_AsClaimed ==
    AbsentOrWellFormed(pristine) =>
        /\ AbsentOrWellFormed(target)
        /\ (IsMerge /\ call.res.outcome = "parse_error") => ~ParseFails(call.pre_target)

(***************************************************************************)
(* Direct calls of copy_devices into <jflash_dir>/Devices.                 *)
(***************************************************************************)
\* the path s/s/.../s of length k
Spine(k) == [i \in 1..k |-> "s"]

\* the paths of at most d names: a file a or s in the directory s/.../s
PathsUpTo(d) == {Spine(k) \o <<n>> : k \in 0..(d - 1), n \in {"a", "s"}}

\* no path of S lies below another: S can be the files of one folder
PrefixFree(S) == \A p \in S, q \in S : ~IsProperPrefix(p, q)

TreeShapes == {S \in SUBSET PathsUpTo(MaxDepth) : PrefixFree(S)}

\* the files of a selected algorithm folder, and of an installed folder
SrcTrees == {[p \in S |-> "new"] : S \in TreeShapes}
DstTrees == {[p \in S |-> "old"] : S \in TreeShapes}

InitCopy ==
    /\ target = Absent
    /\ bak = Absent
    /\ \E d \in {NoDir} \cup {Dir(t) : t \in DstTrees} :
           inst = [NoInst EXCEPT !["Devices"] = d]
    /\ backup = TRUE
    /\ call = NoCall
    /\ ncalls = 0
    /\ pristine = target
    /\ NoWorker

\* the sets of files the os.walk loop of a Python < 3.8 build may have copied
\* when its first error is raised: the listing order is the file system's
DoneSets(sel, dst, legacy) ==
    IF legacy /\ sel.found /\ dst.exists /\ Copied(sel.files, dst.files) # DOMAIN sel.files
    THEN SUBSET Copied(sel.files, dst.files)
    ELSE {{}}

CallCopyDevices(sel, legacy) ==
    /\ \E done \in DoneSets(sel, inst[sel.name], legacy) :
         LET res == copy_devices(sel, inst[sel.name], legacy, done) IN
         /\ inst' = [inst EXCEPT ![sel.name] = res.dir]
         /\ call' = [op |-> "copy_devices", pre_dir |-> inst[sel.name], sel |-> sel,
                     legacy |-> legacy, res |-> res]
    /\ UNCHANGED <<target, bak, backup, ncalls, pristine, workerVars>>

NextCopy ==
    \E sel \in {[NotSelected EXCEPT !.name = "Devices"]} \cup {Selected("Devices", t) : t \in SrcTrees},
       legacy \in BOOLEAN :
        CallCopyDevices(sel, legacy)

SpecCopy == InitCopy /\ [][NextCopy]_vars

(***************************************************************************)
(* Properties of copy_devices (checked under SpecCopy).                    *)
(***************************************************************************)
IsCopy == call.op = "copy_devices"

\* the call found the destination folder existing and went into the merge
\* branch with a selected folder
CopyIntoExisting == IsCopy /\ call.sel.found /\ call.pre_dir.exists

\* the destination after the call
DstAfter == inst[call.sel.name].files

\* every source file is at its relative path with the source's content
SourcePresent == \A p \in DOMAIN call.sel.files :
                    p \in DOMAIN DstAfter /\ DstAfter[p] = call.sel.files[p]

\* every file only the destination had is still there, unchanged
DestOnlyKept == \A q \in DOMAIN call.pre_dir.files \ DOMAIN call.sel.files :
                    q \in DOMAIN DstAfter /\ DstAfter[q] = call.pre_dir.files[q]

\* no file of the destination is gone
NothingDeleted == DOMAIN call.pre_dir.files \subseteq DOMAIN DstAfter

\* a path is a file in one of the two trees and a directory in the other
TypeClash(src, dst) ==
    \/ \E p \in DOMAIN src : IsDirIn(dst, p)
    \/ \E q \in DOMAIN dst : IsDirIn(src, q)

\* C10 (as claimed): after copy_devices merged the selected folder into an
\* existing destination folder, every source file is at its relative path
\* with the source's content, every file only the destination had is there
\* unchanged, and no destination file was deleted.
C10_AsClaimed ==
    (CopyIntoExisting /\ call.res.outcome = "merged") =>
        SourcePresent /\ DestOnlyKept /\ NothingDeleted

\* C10 (amended): no destination file is ever deleted; and if no relative
\* path is a file in one tree and a directory in the other, the merge
\* completes and leaves the union-overlay.
C10_UnionOverlay ==
    CopyIntoExisting =>
        /\ NothingDeleted
        /\ ~TypeClash(call.sel.files, call.pre_dir.files) =>
              /\ call.res.outcome = "merged"
              /\ SourcePresent
              /\ DestOnlyKept

\* a merge that overwrote one file, added another below a directory and
\* left a file only the destination had
C10_Witness ==
    /\ CopyIntoExisting
    /\ call.res.outcome = "merged"
    /\ ~TypeClash(call.sel.files, call.pre_dir.files)
    /\ \E p \in DOMAIN call.sel.files : p \in DOMAIN call.pre_dir.files /\ call.pre_dir.files[p] = "old"
    /\ \E p \in DOMAIN call.sel.files : p \notin DOMAIN call.pre_dir.files /\ Len(p) = 2
    /\ \E q \in DOMAIN call.pre_dir.files : q \notin DOMAIN call.sel.files /\ DstAfter[q] = "old"

(***************************************************************************)
(* Patch bundles and process_patch.                                        *)
(***************************************************************************)
\* a bundle directory: its JLinkDevices.xml and its subdirectories in the
\* order Path.iterdir lists them
Bundle(xml, subdirs) == [xml |-> xml, subdirs |-> subdirs]
SubDir(name, files) == [name |-> name, files |-> files]

\* list.index(name): the first position of the name among the subdirectories
IndexOf(subdirs, name) ==
    CHOOSE i \in 1..Len(subdirs) :
        /\ subdirs[i].name = name
        /\ \A j \in 1..(i - 1) : subdirs[j].name # name

HasSubDir(subdirs, name) == \E i \in 1..Len(subdirs) : subdirs[i].name = name

SelectAt(subdirs, i) == Selected(subdirs[i].name, subdirs[i].files)

\* auto_select_device_folder(mcu_folder)
auto_select_device_folder(folder) ==
    IF Len(folder.subdirs) = 0 THEN NotSelected
    ELSE IF HasSubDir(folder.subdirs, "JLinkDevices")
         THEN SelectAt(folder.subdirs, IndexOf(folder.subdirs, "JLinkDevices"))
    ELSE IF HasSubDir(folder.subdirs, "Devices")
         THEN SelectAt(folder.subdirs, IndexOf(folder.subdirs, "Devices"))
    ELSE IF Len(folder.subdirs) = 1 THEN SelectAt(folder.subdirs, 1)
    ELSE SelectAt(folder.subdirs, 1)

\* mutant of PatchWorker_auto_select_device_folder: Devices is preferred to
\* JLinkDevices
PatchWorker_auto_select_device_folder_DevicesFirst(folder) ==
    IF Len(folder.subdirs) = 0 THEN NotSelected
    ELSE IF HasSubDir(folder.subdirs, "Devices")
         THEN SelectAt(folder.subdirs, IndexOf(folder.subdirs, "Devices"))
    ELSE IF HasSubDir(folder.subdirs, "JLinkDevices")
         THEN SelectAt(folder.subdirs, IndexOf(folder.subdirs, "JLinkDevices"))
    ELSE SelectAt(folder.subdirs, 1)

\* PatchWorker.auto_select_device_folder(mcu_folder), the static method run calls
PatchWorker_auto_select_device_folder(folder) ==
    IF Len(folder.subdirs) = 0 THEN NotSelected
    ELSE IF HasSubDir(folder.subdirs, "JLinkDevices")
         THEN SelectAt(folder.subdirs, IndexOf(folder.subdirs, "JLinkDevices"))
    ELSE IF HasSubDir(folder.subdirs, "Devices")
         THEN SelectAt(folder.subdirs, IndexOf(folder.subdirs, "Devices"))
    ELSE IF Len(folder.subdirs) = 1 THEN SelectAt(folder.subdirs, 1)
    ELSE SelectAt(folder.subdirs, 1)

\* PatchWorker.run after a selection: is the line about several
\* subdirectories, the first of them taken, emitted
MultiFolderLogged(folder) ==
    /\ Len(folder.subdirs) > 1
    /\ ~HasSubDir(folder.subdirs, "JLinkDevices")
    /\ ~HasSubDir(folder.subdirs, "Devices")

\* copy_devices was not reached
NotAttempted == CopyResult(NoDir, "not_attempted", <<>>)

\* the destination folder of a selection: <jflash_dir>/<basename>
DstTarget(ins, sel) == IF sel.found THEN ins[sel.name] ELSE NoDir

\* the algorithm folders after copy_devices returned or raised
InstAfter(ins, sel, cres) ==
    IF sel.found THEN [ins EXCEPT ![sel.name] = cres.dir] ELSE ins

\* process_patch(folder, jflash_dir, select_callback, backup, log_func), sel
\* being what select_callback returns for the folder: merge_xml, then
\* copy_devices unless merge_xml raised
process_patch(tgt, bk, ins, folder, sel, bkp, wfault, legacy, done) ==
    LET mres == merge_xml(tgt, bk, folder.xml, bkp, wfault) IN
    IF mres.outcome = "raised"
    THEN [target |-> mres.target, bak |-> mres.bak, inst |-> ins,
          merge |-> mres, copy |-> NotAttempted, raised |-> TRUE]
    ELSE LET cres == copy_devices(sel, DstTarget(ins, sel), legacy, done) IN
         [target |-> mres.target, bak |-> mres.bak, inst |-> InstAfter(ins, sel, cres),
          merge |-> mres, copy |-> cres, raised |-> (cres.outcome = "raised")]

\* <Device Name="F1" Core="old"/>, the same device with new content, and
\* <Device Name="F4"/>
DevF1old == Element(s_Device, << <<s_Name, s_F1>>, <<s_Core, s_old>> >>, <<>>)
DevF1new == Element(s_Device, << <<s_Name, s_F1>>, <<s_Core, s_new>> >>, <<>>)
DevF4    == Element(s_Device, << <<s_Name, s_F4>> >>, <<>>)

FileA  == [p \in {<<"a">>} |-> "new"]
FileSA == [p \in {<<"s", "a">>} |-> "new"]
FileS  == [p \in {<<"s">>} |-> "old"]

\* the bundle directories of the patch root, by name
Catalog ==
    [stm   |-> Bundle(Doc(<<DevF1new, DevF4>>), <<SubDir("Devices", FileSA)>>),
     nosub |-> Bundle(Doc(<<DevF4>>), <<>>),
     noxml |-> Bundle(Absent, <<SubDir("Flash", FileA)>>),
     bad   |-> Bundle(Malformed, <<SubDir("Flash", FileA), SubDir("Algo", FileA)>>)]

BundleNames == DOMAIN Catalog

\* the installation roots the patches are applied to
InitRoot ==
    /\ target \in {Absent, Doc(<<DevF1old>>)}
    /\ bak = Absent
    /\ inst \in {NoInst, [NoInst EXCEPT !["Devices"] = Dir(FileS)]}
    /\ backup \in BOOLEAN
    /\ pristine = target

(***************************************************************************)
(* Direct calls of process_patch with auto_select_device_folder as the     *)
(* select_callback.                                                        *)
(***************************************************************************)
InitPatch ==
    /\ InitRoot
    /\ call = NoCall
    /\ ncalls = 0
    /\ NoWorker

CallProcessPatch(b, wfault, legacy) ==
    /\ ncalls < MaxCalls
    /\ LET sel == auto_select_device_folder(Catalog[b]) IN
       \E done \in DoneSets(sel, DstTarget(inst, sel), legacy) :
         \E res \in {process_patch(target, bak, inst, Catalog[b], sel, backup,
                                   wfault, legacy, done)} :
         /\ target' = res.target
         /\ bak' = res.bak
         /\ inst' = res.inst
         /\ call' = [op |-> "process_patch", pre_target |-> target, pre_bak |-> bak,
                     pre_inst |-> inst, folder |-> b, sel |-> sel, res |-> res]
    /\ ncalls' = ncalls + 1
    /\ UNCHANGED <<backup, pristine, workerVars>>

NextPatch == \E b \in BundleNames, wfault \in BOOLEAN, legacy \in BOOLEAN :
                 CallProcessPatch(b, wfault, legacy)

SpecPatch == InitPatch /\ [][NextPatch]_vars

(***************************************************************************)
(* Properties of process_patch (checked under SpecPatch).                  *)
(***************************************************************************)
IsPatch == call.op = "process_patch"

\* C5 (as claimed): when the folder selector returns not-found, process_patch
\* logs the error and returns without touching JLinkDevices.xml: no merge,
\* no backup, no write.
C5_AsClaimed ==
    (IsPatch /\ ~call.sel.found /\ ~call.res.raised) =>
        /\ call.res.copy.outcome = "not_selected"
        /\ target = call.pre_target
        /\ bak = call.pre_bak
        /\ call.res.merge.writes = 0

(***************************************************************************)
(* The GUI: MainWindow.start_patch, the worker thread running              *)
(* PatchWorker.run, MainWindow.on_patch_finished and MainWindow.closeEvent.*)
(* The worker thread and the GUI thread interleave, so run is cut where    *)
(* the other thread can see or stop it: at the head of the loop, before    *)
(* merge_xml and before copy_devices.                                      *)
(***************************************************************************)
Init ==
    /\ InitRoot
    /\ call = NoCall
    /\ ncalls = 0
    /\ NoWorker

\* the lists of ticked bundles: each folder of the patch list at most once
Batches == {q \in SeqsUpTo(BundleNames, MaxBatch) :
               /\ Len(q) >= 1
               /\ \A i \in 1..Len(q), j \in 1..Len(q) : i # j => q[i] # q[j]}

\* what the batch did with one bundle
HistEntry(folder, merge, copy) == [folder |-> folder, merge |-> merge, copy |-> copy]

\* MainWindow.start_patch, the user confirming, with no batch under way; the
\* patch list has items only after a scan that found bundles
StartPatch(batch) ==
    /\ start_btn
    /\ closing = "open"
    /\ patch_root_valid
    /\ wpc \in {"none", "crashed"}
    /\ start_btn' = FALSE
    /\ selected_folders' = batch
    /\ is_running' = TRUE
    /\ idx' = 0
    /\ wpc' = "loop"
    /\ hist' = <<>>
    /\ UNCHANGED <<jflash_valid, patch_root_valid, target, bak, inst, backup, call, ncalls, pristine, closing, cur>>

\* MainWindow.start_patch, the user confirming, while the thread of the
\* previous batch has not ended with on_patch_finished: a second QThread and
\* PatchWorker are created and started beside the first.  What two workers
\* do to the installation root is not followed further.
StartSecond ==
    /\ start_btn
    /\ closing = "open"
    /\ patch_root_valid
    /\ wpc \in {"loop", "merge", "copy", "finished"}
    /\ start_btn' = FALSE
    /\ wpc' = "overlap"
    /\ UNCHANGED <<jflash_valid, patch_root_valid, target, bak, inst, backup, call, ncalls,
                   pristine, closing, selected_folders, is_running, idx, cur, hist>>

\* MainWindow.update_start_button_state
update_start_button_state(jv, pv) == jv /\ pv

\* MainWindow.browse_jlink_path, the user choosing a directory: valid is
\* what validate_jflash_path finds there
BrowseJlinkPath(valid) ==
    /\ closing = "open"
    /\ jflash_valid' = valid
    /\ start_btn' = update_start_button_state(valid, patch_root_valid)
    /\ UNCHANGED <<patch_root_valid, target, bak, inst, backup, call, ncalls, pristine,
                   closing, selected_folders, is_running, idx, wpc, cur, hist>>

\* MainWindow.browse_patch_root, the user choosing a directory: scan_patches,
\* valid being whether get_mcu_folders finds a bundle there
BrowsePatchRoot(valid) ==
    /\ closing = "open"
    /\ patch_root_valid' = valid
    /\ start_btn' = update_start_button_state(jflash_valid, valid)
    /\ UNCHANGED <<jflash_valid, target, bak, inst, backup, call, ncalls, pristine,
                   closing, selected_folders, is_running, idx, wpc, cur, hist>>

\* PatchWorker.run, the loop is over or the stop flag is set: the closing
\* log lines and finished_signal
RunFinish ==
    /\ wpc = "loop"
    /\ idx = Len(selected_folders) \/ ~is_running
    /\ wpc' = "finished"
    /\ UNCHANGED <<jflash_valid, patch_root_valid, target, bak, inst, backup, call, ncalls, pristine,
                   start_btn, closing, selected_folders, is_running, idx, cur, hist>>

\* PatchWorker.run, the head of one iteration: the stop flag, then
\* auto_select_device_folder; not found: log and continue
RunSelect ==
    /\ wpc = "loop"
    /\ idx < Len(selected_folders)
    /\ is_running
    /\ LET folder == selected_folders[idx + 1]
           sel == PatchWorker_auto_select_device_folder(Catalog[folder]) IN
       /\ call' = [op |-> "select", folder |-> Catalog[folder], sel |-> sel,
                   multi_logged |-> sel.found /\ MultiFolderLogged(Catalog[folder])]
       /\ IF ~sel.found
          THEN /\ idx' = idx + 1
               /\ hist' = Append(hist, HistEntry(folder, "not_attempted", "not_attempted"))
               /\ UNCHANGED <<wpc, cur>>
          ELSE /\ wpc' = "merge"
               /\ cur' = sel
               /\ UNCHANGED <<idx, hist>>
    /\ UNCHANGED <<jflash_valid, patch_root_valid, target, bak, inst, backup, ncalls, pristine,
                   start_btn, closing, selected_folders, is_running>>

\* PatchWorker.run in process_patch: merge_xml; an exception leaves run
RunMergeXml(wfault) ==
    /\ wpc = "merge"
    /\ LET folder == selected_folders[idx + 1]
           res == merge_xml(target, bak, Catalog[folder].xml, backup, wfault) IN
       /\ target' = res.target
       /\ bak' = res.bak
       /\ call' = [op |-> "merge_xml", pre_target |-> target, pre_bak |-> bak,
                   src |-> Catalog[folder].xml, backup |-> backup, rerun |-> FALSE,
                   res |-> res]
       /\ hist' = Append(hist, HistEntry(folder, res.outcome, "not_attempted"))
       /\ wpc' = IF res.outcome = "raised" THEN "crashed" ELSE "copy"
    /\ UNCHANGED <<jflash_valid, patch_root_valid, inst, backup, ncalls, pristine,
                   start_btn, closing, selected_folders, is_running, idx, cur>>

\* PatchWorker.run in process_patch: copy_devices with the callback that
\* returns (selected_path, True), then progress_signal; an exception leaves run
RunCopyDevices(legacy) ==
    /\ wpc = "copy"
    /\ \E done \in DoneSets(cur, inst[cur.name], legacy) :
         LET res == copy_devices(cur, inst[cur.name], legacy, done) IN
         /\ inst' = [inst EXCEPT ![cur.name] = res.dir]
         /\ call' = [op |-> "copy_devices", pre_dir |-> inst[cur.name], sel |-> cur,
                     legacy |-> legacy, res |-> res]
         /\ hist' = [hist EXCEPT ![Len(hist)].copy = res.outcome]
         /\ IF res.outcome = "raised"
            THEN wpc' = "crashed" /\ idx' = idx
            ELSE wpc' = "loop" /\ idx' = idx + 1
    /\ UNCHANGED <<jflash_valid, patch_root_valid, target, bak, backup, ncalls, pristine,
                   start_btn, closing, selected_folders, is_running, cur>>

\* MainWindow.on_patch_finished, after finished_signal made the thread quit
OnPatchFinished ==
    /\ wpc = "finished"
    /\ closing = "open"
    /\ start_btn' = TRUE
    /\ wpc' = "none"
    /\ UNCHANGED <<jflash_valid, patch_root_valid, target, bak, inst, backup, call, ncalls, pristine,
                   closing, selected_folders, is_running, idx, cur, hist>>

\* QThread.isRunning: run has not returned, or it was left by an exception
\* and the thread sits in its event loop
ThreadRunning == wpc \in {"loop", "merge", "copy", "crashed", "overlap"}

\* MainWindow.closeEvent with no thread running: the window closes
CloseIdle ==
    /\ closing = "open"
    /\ ~ThreadRunning
    /\ closing' = "closed"
    /\ UNCHANGED <<jflash_valid, patch_root_valid, target, bak, inst, backup, call, ncalls, pristine,
                   start_btn, selected_folders, is_running, idx, wpc, cur, hist>>

\* MainWindow.closeEvent with the thread running, the user answering Yes:
\* worker.stop(), worker_thread.quit(), then wait(2000) begins
CloseStop ==
    /\ closing = "open"
    /\ ThreadRunning
    /\ is_running' = FALSE
    /\ closing' = "waiting"
    /\ UNCHANGED <<jflash_valid, patch_root_valid, target, bak, inst, backup, call, ncalls, pristine,
                   start_btn, selected_folders, idx, wpc, cur, hist>>

\* closeEvent: wait(2000) returns true, the thread has ended
CloseWaitDone ==
    /\ closing = "waiting"
    /\ wpc \in {"finished", "crashed", "overlap"}
    /\ closing' = "closed"
    /\ UNCHANGED <<jflash_valid, patch_root_valid, target, bak, inst, backup, call, ncalls, pristine,
                   start_btn, selected_folders, is_running, idx, wpc, cur, hist>>

\* closeEvent: wait(2000) times out with run still going: terminate()
CloseTerminate ==
    /\ closing = "waiting"
    /\ wpc \in {"loop", "merge", "copy"}
    /\ wpc' = "terminated"
    /\ closing' = "closed"
    /\ UNCHANGED <<jflash_valid, patch_root_valid, target, bak, inst, backup, call, ncalls, pristine,
                   start_btn, selected_folders, is_running, idx, cur, hist>>

Next ==
    \/ \E batch \in Batches : StartPatch(batch)
    \/ StartSecond
    \/ \E valid \in BOOLEAN : BrowseJlinkPath(valid)
    \/ \E valid \in BOOLEAN : BrowsePatchRoot(valid)
    \/ RunFinish
    \/ RunSelect
    \/ \E wfault \in BOOLEAN : RunMergeXml(wfault)
    \/ \E legacy \in BOOLEAN : RunCopyDevices(legacy)
    \/ OnPatchFinished
    \/ CloseIdle
    \/ CloseStop
    \/ CloseWaitDone
    \/ CloseTerminate

Spec == Init /\ [][Next]_vars

\* the scheduling of the two threads: the worker thread keeps executing run
\* while it is in it, the GUI thread delivers the finished signal, and
\* wait(2000) returns
WorkerStep ==
    \/ RunFinish
    \/ RunSelect
    \/ \E wfault \in BOOLEAN : RunMergeXml(wfault)
    \/ \E legacy \in BOOLEAN : RunCopyDevices(legacy)

SpecLive ==
    /\ Spec
    /\ WF_vars(WorkerStep)
    /\ WF_vars(OnPatchFinished)
    /\ WF_vars(CloseWaitDone \/ CloseTerminate)

(***************************************************************************)
(* Properties of the batch (checked under Spec).                           *)
(***************************************************************************)
\* the worker thread no longer executes PatchWorker.run
RunEnded == wpc \in {"none", "finished", "crashed", "terminated"}

\* merge_xml returned for the bundle, whatever it did
MergeReturned(h) == h.merge \in {"merged", "created", "src_missing", "parse_error"}

\* C6 (as claimed): a failure while one bundle is applied does not keep the
\* later bundles from being applied: unless a stop was requested, the batch
\* ends only after every bundle of the list was attempted or skipped.
C6_AsClaimed ==
    (RunEnded /\ wpc # "terminated" /\ is_running) => Len(hist) = Len(selected_folders)

\* C7 (as claimed): under cancellation no bundle is left with its XML merge
\* done and its folder copy never attempted: when run has ended, every
\* bundle whose merge_xml returned also had copy_devices called.
C7_AsClaimed ==
    RunEnded => \A i \in 1..Len(hist) : MergeReturned(hist[i]) => hist[i].copy # "not_attempted"

\* the batch started by start_patch has not ended with on_patch_finished
BatchUnderWay == wpc \in {"loop", "merge", "copy", "finished"}

\* C19 (as claimed): from start_patch to on_patch_finished the start button
\* stays disabled, whatever the user does in the window, and no second
\* worker is started beside the first.
C19_AsClaimed ==
    /\ (BatchUnderWay /\ closing = "open") => ~start_btn
    /\ wpc # "overlap"

\* C20 (as claimed, checked under SpecLive): every batch that start_patch
\* started ends with on_patch_finished re-enabling the start button, unless
\* the window is closed or a second batch is started beside it first.
C20_AsClaimed ==
    (wpc = "loop") ~> (wpc = "none" \/ closing # "open" \/ wpc = "overlap")

(***************************************************************************)
(* Direct calls of get_device_name on elements of up to three levels.      *)
(***************************************************************************)
\* the attributes of an element of each level: none, or a name attribute in
\* some casing; the top level also with an empty Name beside a second key
LeafAttribs == {<<>>, << <<s_nAmE, <<"g">>>> >>}
KidAttribs  == {<<>>, << <<s_name, <<"c">>>> >>}
TopAttribs  == {<<>>, << <<s_Name, <<"t">>>> >>, << <<s_nAmE, <<"u">>>> >>,
                << <<s_Name, <<>>>>, <<s_nAmE, <<"v">>>> >>}

Leaves == {Element(s_X, a, <<>>) : a \in LeafAttribs}
Kids   == {Element(t, a, k) : t \in {s_ChipInfo, s_Device, s_X}, a \in KidAttribs,
                              k \in SeqsUpTo(Leaves, 1)}
Tops   == {Element(t, a, k) : t \in {s_Device, s_X}, a \in TopAttribs,
                              k \in SeqsUpTo(Kids, MaxElemKids)}

InitResolve ==
    /\ target = Absent
    /\ bak = Absent
    /\ inst = NoInst
    /\ backup = TRUE
    /\ call = NoCall
    /\ ncalls = 0
    /\ pristine = target
    /\ NoWorker

\* one call in a behaviour: the function keeps no state between calls
CallGetDeviceName(elem) ==
    /\ call = NoCall
    /\ call' = [op |-> "get_device_name", elem |-> elem, res |-> get_device_name(elem)]
    /\ UNCHANGED <<target, bak, inst, backup, ncalls, pristine, workerVars>>

NextResolve == call = NoCall /\ \E elem \in Tops : CallGetDeviceName(elem)

SpecResolve == InitResolve /\ [][NextResolve]_vars

(***************************************************************************)
(* Properties of get_device_name (checked under SpecResolve).              *)
(***************************************************************************)
IsResolve == call.op = "get_device_name"

\* the positions of the attributes whose key is "name" in some casing
NameKeys(elem) == {i \in 1..Len(elem.attrib) : Lower(elem.attrib[i][1]) = s_name}

\* the direct children tagged chipinfo that carry a name attribute
NamedChipInfos(elem) ==
    {i \in 1..Len(elem.kids) :
        Lower(elem.kids[i].tag) = s_chipinfo /\ NameKeys(elem.kids[i]) # {}}

\* some element below elem carries a name attribute
RECURSIVE NameBelow(_)
NameBelow(elem) ==
    \E i \in 1..Len(elem.kids) : NameKeys(elem.kids[i]) # {} \/ NameBelow(elem.kids[i])

\* C11 (as claimed): a device element with a chipinfo child that carries a
\* name attribute resolves to that chipinfo child's name, found.
C11_AsClaimed ==
    (IsResolve /\ Lower(call.elem.tag) = s_device /\ NamedChipInfos(call.elem) # {}) =>
        call.res = Found(FirstNameKey(call.elem.kids[FirstOf(NamedChipInfos(call.elem))]))

\* C11 (amended): a device element without a name attribute of its own and
\* with a chipinfo child that carries a name attribute resolves to the name
\* of the first such chipinfo child, found, whatever names its other children
\* and its grandchildren carry.
C11_ChipInfoName ==
    (/\ IsResolve
     /\ Lower(call.elem.tag) = s_device
     /\ NameKeys(call.elem) = {}
     /\ NamedChipInfos(call.elem) # {}) =>
        call.res = Found(FirstNameKey(call.elem.kids[FirstOf(NamedChipInfos(call.elem))]))

\* a device without a name of its own whose first child is no chipinfo and
\* leads to another name, and whose second child is a chipinfo with a name
C11_Witness ==
    /\ IsResolve
    /\ Lower(call.elem.tag) = s_device
    /\ NameKeys(call.elem) = {}
    /\ Len(call.elem.kids) = 2
    /\ Lower(call.elem.kids[1].tag) = s_device
    /\ get_device_name(call.elem.kids[1]) = Found(<<"g">>)
    /\ NamedChipInfos(call.elem) = {2}
    /\ call.res = Found(<<"c">>)

\* C12 (as claimed): an element of any tag without a name attribute of its
\* own and without a chipinfo-derived name resolves to the first successful
\* result among its direct children, and to not-found only if no element
\* below it carries a name.
C12_AsClaimed ==
    (/\ IsResolve
     /\ NameKeys(call.elem) = {}
     /\ ~ChipInfoScan(call.elem.kids, 1).found) =>
        /\ call.res = ChildScan(call.elem.kids, 1)
        /\ ~call.res.found => ~NameBelow(call.elem)

\* C13: an element that carries a name attribute in some casing resolves to
\* the value of such an attribute, found, and to the same result whatever
\* its children are; with one such attribute, to that attribute's value.
\* Every result is (value, true) or (None, false).
C13_OwnNameWins ==
    IsResolve =>
        /\ NameKeys(call.elem) # {} =>
              /\ call.res.found
              /\ \E i \in NameKeys(call.elem) : call.res.name = call.elem.attrib[i][2]
              /\ Cardinality(NameKeys(call.elem)) = 1 =>
                    call.res.name = call.elem.attrib[FirstOf(NameKeys(call.elem))][2]
              /\ call.res = get_device_name([call.elem EXCEPT !.kids = <<>>])
        /\ call.res.found \/ call.res = NotFound
        /\ call.res.found => call.res.name # None

\* an element whose only name attribute is spelled nAmE and whose child
\* carries another name
C13_Witness ==
    /\ IsResolve
    /\ Cardinality(NameKeys(call.elem)) = 1
    /\ call.elem.attrib[1][1] = s_nAmE
    /\ Len(call.elem.kids) >= 1
    /\ NameKeys(call.elem.kids[1]) # {}
    /\ call.res = Found(<<"u">>)

(***************************************************************************)
(* get_mcu_folders.  A directory is what iterdir lists of it: a sequence   *)
(* of entries, each with a name and a directory or a file; an entry of the *)
(* patch root that is a directory has a listing of its own.                *)
(***************************************************************************)
Entry(name, isdir) == [name |-> name, isdir |-> isdir]
Item(isdir, listing) == [isdir |-> isdir, listing |-> listing]

\* (item / 'JLinkDevices.xml').is_file()
HasXmlFile(item) ==
    \E i \in 1..Len(item.listing) :
        item.listing[i].name = "JLinkDevices.xml" /\ ~item.listing[i].isdir

\* [d for d in item.iterdir() if d.is_dir()]
SubdirsOf(listing) == SelectSeq(listing, LAMBDA e : e.isdir)

\* mutant of IsMcuFolder: the subdirectories are not asked for
IsMcuFolder_XmlOnly(item) == item.isdir /\ HasXmlFile(item)

\* the three conditions under which an entry is appended to valid_folders
IsMcuFolder(item) ==
    item.isdir /\ HasXmlFile(item) /\ SubdirsOf(item.listing) # <<>>

\* get_mcu_folders(patch_root): the positions, in iterdir order, of the
\* entries of the patch root that are returned
RECURSIVE McuScan(_, _)
McuScan(root, i) ==
    IF i > Len(root) THEN <<>>
    ELSE IF IsMcuFolder(root[i]) THEN <<i>> \o McuScan(root, i + 1)
    ELSE McuScan(root, i + 1)

get_mcu_folders(root) == McuScan(root, 1)

EntryNames == {"JLinkDevices.xml", "Devices", "readme.txt"}

\* the listings of a directory: entries of pairwise different names
Listings ==
    {l \in SeqsUpTo({Entry(n, d) : n \in EntryNames, d \in BOOLEAN}, MaxEntries) :
        \A i \in 1..Len(l), j \in 1..Len(l) : i # j => l[i].name # l[j].name}

\* the entries of a patch root: a file, or a directory with its listing
Items == {Item(FALSE, <<>>)} \cup {Item(TRUE, l) : l \in Listings}

\* the patch roots
Roots == SeqsUpTo(Items, 2)

\* one call in a behaviour: the function keeps no state between calls
CallGetMcuFolders(root) ==
    /\ call = NoCall
    /\ call' = [op |-> "get_mcu_folders", root |-> root, res |-> get_mcu_folders(root)]
    /\ UNCHANGED <<target, bak, inst, backup, ncalls, pristine, workerVars>>

NextScan == call = NoCall /\ \E root \in Roots : CallGetMcuFolders(root)

SpecScan == InitResolve /\ [][NextScan]_vars

(***************************************************************************)
(* Properties of get_mcu_folders (checked under SpecScan).                 *)
(***************************************************************************)
IsScan == call.op = "get_mcu_folders"

Returned(i) == \E k \in 1..Len(call.res) : call.res[k] = i

FilesNamed(item, name) ==
    {i \in 1..Len(item.listing) : item.listing[i].name = name /\ ~item.listing[i].isdir}
DirsIn(item) == {i \in 1..Len(item.listing) : item.listing[i].isdir}

\* C16: an entry of the patch root is returned iff it is a directory that
\* holds a file named JLinkDevices.xml and at least one subdirectory; each
\* returned entry is returned once, in listing order.
C16_DiscoverIff ==
    IsScan =>
        /\ \A i \in 1..Len(call.root) :
              Returned(i) <=>
                  /\ call.root[i].isdir
                  /\ FilesNamed(call.root[i], "JLinkDevices.xml") # {}
                  /\ DirsIn(call.root[i]) # {}
        /\ \A k \in 1..Len(call.res) : call.res[k] \in 1..Len(call.root)
        /\ \A k \in 1..(Len(call.res) - 1) : call.res[k] < call.res[k + 1]

\* a patch root with a bundle that is returned and, after it, a directory
\* that holds the XML file and no subdirectory and is left out
C16_Witness ==
    /\ IsScan
    /\ Len(call.root) = 2
    /\ call.res = <<1>>
    /\ call.root[2].isdir
    /\ FilesNamed(call.root[2], "JLinkDevices.xml") # {}
    /\ DirsIn(call.root[2]) = {}

(***************************************************************************)
(* The default folder selector on the listing of a bundle directory, as    *)
(* the head of one iteration of PatchWorker.run calls it.                  *)
(***************************************************************************)
\* the listings of a bundle directory
BundleListings ==
    {l \in SeqsUpTo({Entry(n, d) : n \in FolderNames, d \in BOOLEAN}, MaxEntries) :
        \A i \in 1..Len(l), j \in 1..Len(l) : i # j => l[i].name # l[j].name}

\* the bundle with this listing: its subdirectories in listing order
BundleOf(listing) ==
    Bundle(Absent, [i \in 1..Len(SubdirsOf(listing)) |->
                       SubDir(SubdirsOf(listing)[i].name, NoFiles)])

\* one call in a behaviour: the selector keeps no state between calls
CallSelect(listing) ==
    /\ call = NoCall
    /\ LET folder == BundleOf(listing)
           sel == PatchWorker_auto_select_device_folder(folder) IN
       call' = [op |-> "select", listing |-> listing, folder |-> folder, sel |-> sel,
                module_sel |-> auto_select_device_folder(folder),
                multi_logged |-> sel.found /\ MultiFolderLogged(folder)]
    /\ UNCHANGED <<target, bak, inst, backup, ncalls, pristine, workerVars>>

NextSelect == call = NoCall /\ \E listing \in BundleListings : CallSelect(listing)

SpecSelect == InitResolve /\ [][NextSelect]_vars

(***************************************************************************)
(* Properties of the selector (checked under SpecSelect).                  *)
(***************************************************************************)
IsSelect == call.op = "select"

\* the positions of the listing that are directories, and those of them
\* with a given name
DirsOf(listing) == {i \in 1..Len(listing) : listing[i].isdir}
DirNamed(listing, name) == {i \in DirsOf(listing) : listing[i].name = name}

\* the rule of the heuristic that applies to a listing
RuleFor(listing) ==
    IF DirsOf(listing) = {} THEN "none"
    ELSE IF DirNamed(listing, "JLinkDevices") # {} THEN "JLinkDevices"
    ELSE IF DirNamed(listing, "Devices") # {} THEN "Devices"
    ELSE IF Cardinality(DirsOf(listing)) = 1 THEN "only"
    ELSE "first"

\* C17: the selector of the worker and the module-level selector return
\* not-found iff the bundle has no subdirectory, and else the subdirectory
\* JLinkDevices, else Devices, else the only one, else the first listed;
\* the worker logs the line about several subdirectories exactly when the
\* last rule applied.
C17_SelectorRules ==
    IsSelect =>
        /\ call.module_sel = call.sel
        /\ call.sel.found <=> RuleFor(call.listing) # "none"
        /\ RuleFor(call.listing) \in {"JLinkDevices", "Devices"} =>
              call.sel.name = RuleFor(call.listing)
        /\ RuleFor(call.listing) \in {"only", "first"} =>
              call.sel.name = call.listing[FirstOf(DirsOf(call.listing))].name
        /\ call.multi_logged <=> RuleFor(call.listing) = "first"

\* a bundle that lists a file named JLinkDevices and then two directories of
\* other names: the first directory is taken and the line is logged
C17_Witness ==
    /\ IsSelect
    /\ Len(call.listing) = 3
    /\ call.listing[1] = Entry("JLinkDevices", FALSE)
    /\ DirsOf(call.listing) = {2, 3}
    /\ RuleFor(call.listing) = "first"
    /\ call.sel.name = call.listing[2].name
    /\ call.multi_logged

====
